---- MODULE Spec2Model ----
(***************************************************************************)
(* A state-machine model of script.js: the Toast, SidebarManager,          *)
(* TestimonialCarousel, ImageModal, ContactForm and TabManager components, *)
(* the browser's timer table they schedule callbacks on, and the events    *)
(* the page can receive.  Every handler of the script is one action.       *)
(*                                                                         *)
(* The components share the timer table, document.body.style.overflow and  *)
(* the keyboard focus.  Spec is the whole page.  Each group of components  *)
(* that shares state also has a specification of its own (SpecToast,       *)
(* SpecCarousel, SpecSidebar, SpecModal, SpecPage, SpecForm, SpecEmail,    *)
(* SpecTabs), in which the other components are absent from the page and   *)
(* their variables stay as they are at load.  SpecApp starts before        *)
(* PortfolioApp.init() has run and has init() as its first step.           *)
(***************************************************************************)
EXTENDS Integers, Sequences, FiniteSets, TLC

VARIABLES
  \* ---- browser ----
  timers,            \* pending setTimeout/setInterval callbacks
  bodyOverflow,      \* document.body.style.overflow: "" or "hidden"
  focus,             \* document.activeElement, by name
  lastEvent,         \* history: the handler that ran last, [op, arg]; arg
                     \* is its input, or for next() and prev() the index
                     \* they started from
  \* ---- Toast ----
  toastElement,      \* elements.toast is present
  toastTimeout,      \* Toast.timeout: a timer handle or null
  toastClassName,    \* the class list of the toast element
  toastTextContent,  \* the text of the toast element
  lastShow,          \* history: <<message, type>> of the latest show()
  sinceShow,         \* history: ms elapsed since the latest show()
  pendingAtShow,     \* history: auto-hide timers pending when it was called
  \* ---- TestimonialCarousel ----
  slidesLength,      \* this.slides.length
  track,             \* this.track is present
  dotsContainer,     \* this.dotsContainer is present
  currentTestimonial,\* state.currentTestimonial
  carouselInterval,  \* state.carouselInterval: a timer handle or null
  startX,            \* addSwipeSupport: let startX
  currentX,          \* addSwipeSupport: let currentX
  dots,              \* this.dots: position -> carries 'active'
  slideAriaHidden,   \* aria-hidden of each slide: "unset", "true", "false"
  trackTransform,    \* translateX of the track, in slide widths
  hover,             \* the pointer is over the track
  pressed,           \* a press that started on the track is not yet released
  pointerX,          \* pageX of the pointer
  \* ---- SidebarManager ----
  sidebarEl,         \* elements.sidebar is present
  overlayEl,         \* elements.overlay is present
  hamburgerEl,       \* elements.hamburger is present
  isOpen,            \* SidebarManager.isOpen
  isMobile,          \* state.isMobile
  innerWidth,        \* window.innerWidth
  sidebarClasses,    \* class list of the sidebar
  overlayActive,     \* the overlay carries 'active'
  hamburgerActive,   \* the hamburger carries 'active'
  resizeTimeout,     \* state.resizeTimeout: a timer handle or null
  beforeToggle,      \* history: the sidebar before toggle(), if it ran last
  sinceResize,       \* history: ms a resize timer has waited since the
                     \* latest resize event
  \* ---- ImageModal ----
  modalContentEl,    \* this.modalContent is present
  modalOpen,         \* the modal carries 'open'
  modalContent,      \* what the content region holds, <<kind, image, trigger>>
  imageLoads,        \* images whose load has not settled, [id, src]
  lastOpened,        \* history: <<image, data-image>> of the latest open()
  pendingAtOpen,     \* history: loads pending when it was called
  \* ---- ContactForm ----
  fieldValue,        \* field -> its value, a sequence of characters
  ariaInvalid,       \* field -> aria-invalid: "unset", "true", "false"
  fieldError,        \* field -> text of its .field-error element, "" if none
  errorClass,        \* field -> it carries the class 'error'
  submitDisabled,    \* the submit button is disabled
  resetDisabled,     \* the reset button is disabled
  submitLoading,     \* the submit button carries 'loading'
  submitLabel,       \* innerHTML of the submit button
  \* ---- TabManager ----
  linkTarget,        \* tab link -> its data-category / data-subcategory
  linkActive,        \* tab link -> it carries 'active'
  paneActive,        \* element -> it carries 'active'
  ariaHidden,        \* element -> aria-hidden: "unset", "true", "false"
  activatedLink,     \* history: the link of the latest activateTab()
  \* ---- PortfolioApp ----
  components,        \* the keys of this.components, in the order they are set
  initLog            \* what init() logged: "none" before it runs, "success"
                     \* or "error" after

browserVars == <<timers, bodyOverflow, focus, lastEvent>>
toastVars == <<toastElement, toastTimeout, toastClassName, toastTextContent,
               lastShow, sinceShow, pendingAtShow>>
carouselVars == <<slidesLength, track, dotsContainer, currentTestimonial,
                  carouselInterval, startX, currentX, dots, slideAriaHidden,
                  trackTransform, hover, pressed, pointerX>>
sidebarVars == <<sidebarEl, overlayEl, hamburgerEl, isOpen, isMobile,
                 innerWidth, sidebarClasses, overlayActive, hamburgerActive,
                 resizeTimeout, beforeToggle, sinceResize>>
modalVars == <<modalContentEl, modalOpen, modalContent, imageLoads,
               lastOpened, pendingAtOpen>>
formVars == <<fieldValue, ariaInvalid, fieldError, errorClass, submitDisabled,
              resetDisabled, submitLoading, submitLabel>>
tabVars == <<linkTarget, linkActive, paneActive, ariaHidden, activatedLink>>
appVars == <<components, initLog>>
vars == <<browserVars, toastVars, carouselVars, sidebarVars, modalVars,
          formVars, tabVars, appVars>>

OutsideToast == <<carouselVars, sidebarVars, modalVars, formVars, tabVars,
                  appVars>>
OutsideCarousel == <<bodyOverflow, toastVars, sidebarVars, modalVars,
                     formVars, tabVars, appVars>>
OutsidePage == <<toastVars, carouselVars, formVars, tabVars, appVars>>
OutsideForm == <<bodyOverflow, carouselVars, sidebarVars, modalVars, tabVars,
                 appVars>>
OutsideTabs == <<timers, bodyOverflow, focus, toastVars, carouselVars,
                 sidebarVars, modalVars, formVars, appVars>>

-----------------------------------------------------------------------------
(* Configuration (script.js, const config) *)

toastDuration == 3000

carouselIntervalMs == 5000     \* config.carouselInterval

threshold == 50                \* handleEnd: const threshold

resizeDelay == 250

mobileBreakpoint == 768        \* window.innerWidth < 768

submitDelay == 1500            \* submitForm: setTimeout(..., 1500)

null == 0

(* Bounds of the model *)

ToastTicks == 3        \* clock steps per toast duration

CarouselTicks == 2     \* clock steps per auto-advance interval

ResizeTicks == 2       \* clock steps per resize delay

MaxPending == 2        \* at most this many simulated calls in flight

TabsPerGroup == 2      \* links, and panes, in each tab group

MaxLoads == 2          \* at most this many image loads pending at a time

MaxSlides == 3         \* at most this many testimonial slides

KSlack == 2            \* goToSlide is called with -KSlack .. N + KSlack

XStep == 25            \* pointer positions are multiples of XStep px

MaxEmailLen == 6    \* e-mail values are at most this long
MaxXUnits == 3         \* ... up to MaxXUnits * XStep

-----------------------------------------------------------------------------
(* The browser's timer table.  A timer is [id, cb, left, period]: left is  *)
(* the time in ms until it is due, period is 0 for setTimeout and the      *)
(* interval for setInterval.  Handles are the ids; the browser never       *)
(* hands out an id twice, so a fresh id is one that no live timer has and  *)
(* no handle variable still holds.                                         *)

Min(S) == CHOOSE x \in S : \A y \in S : x <= y

HeldHandles == {toastTimeout, carouselInterval, resizeTimeout}

NewId(used) == Min({i \in 1..(Cardinality(used) + 1) : i \notin used})

FreshId(ts) == NewId({t.id : t \in ts} \cup HeldHandles)

Timer(id, cb, delay, period) ==
  [id |-> id, cb |-> cb, left |-> delay, period |-> period]

setInterval(ts, cb, delay) == ts \cup {Timer(FreshId(ts), cb, delay, delay)}

setTimeout(ts, cb, delay) == ts \cup {Timer(FreshId(ts), cb, delay, 0)}

clearTimeout(ts, handle) == {t \in ts : t.id # handle}

Event(op, arg) == [op |-> op, arg |-> arg]

-----------------------------------------------------------------------------
(* Toast *)

Severities == {"success", "error", "warning"}

Messages == {"Please fix the errors in the form",
             "Message sent successfully! I will get back to you soon.",
             "Failed to send message. Please try again."}

SeverityClass(type) ==
  CASE type = "success" -> "toast-success"
    [] type = "error"   -> "toast-error"
    [] type = "warning" -> "toast-warning"

\* Toast.hide(): classList.remove('show', 'toast-success', ...)
hideClasses(cls) ==
  cls \ {"show", "toast-success", "toast-error", "toast-warning"}

\* the timer table after show() cleared the previous timer
showClearMutant(ts, handle) == ts

showClear(ts, handle) == clearTimeout(ts, handle)

\* the class list show() leaves: className = 'toast', then add(show, toast-type)
showClasses(cls, type) == {"toast", "show", SeverityClass(type)}

HideTimers(ts) == {t \in ts : t.cb = "toastHide"}

\* Toast.show(message, type), run with the timer table ts
Toast_show(message, type, ts) ==
  IF ~toastElement
  THEN /\ timers' = ts
       /\ UNCHANGED toastVars
  ELSE LET cleared == showClear(ts, toastTimeout)
       IN  /\ toastClassName' = showClasses(hideClasses(toastClassName), type)
           /\ toastTextContent' = message
           /\ toastTimeout' = FreshId(cleared)
           /\ timers' = setTimeout(cleared, "toastHide", toastDuration)
           /\ lastShow' = <<message, type>>
           /\ sinceShow' = 0
           /\ pendingAtShow' = Cardinality(HideTimers(ts))
           /\ UNCHANGED toastElement

\* Toast.hide()
Toast_hide ==
  /\ toastClassName' = IF toastElement THEN hideClasses(toastClassName)
                       ELSE toastClassName
  /\ UNCHANGED <<toastElement, toastTimeout, toastTextContent, lastShow,
                 sinceShow, pendingAtShow>>

ToastInit ==
  /\ toastElement \in BOOLEAN
  /\ toastTimeout = null
  /\ toastClassName = {"toast"}
  /\ toastTextContent = ""
  /\ lastShow = <<>>
  /\ sinceShow = 0
  /\ pendingAtShow = 0

\* the order init() constructs the components in
ComponentOrder ==
  <<"sidebar", "carousel", "modal", "contactForm", "animations", "tabs">>

\* init() has returned and every constructor in it has
AppLoaded ==
  /\ components = ComponentOrder
  /\ initLog = "success"

BrowserInit ==
  /\ timers = {}
  /\ bodyOverflow = ""
  /\ focus = "body"
  /\ lastEvent = Event("load", 0)
  /\ AppLoaded

\* a call of toast.show(message, type)
Show(message, type) ==
  /\ Toast_show(message, type, timers)
  /\ lastEvent' = Event("show", 0)
  /\ UNCHANGED <<bodyOverflow, focus>>
  /\ UNCHANGED OutsideToast

\* a call of toast.hide()
Hide ==
  /\ Toast_hide
  /\ lastEvent' = Event("hide", 0)
  /\ UNCHANGED <<timers, bodyOverflow, focus>>
  /\ UNCHANGED OutsideToast

\* the auto-hide callback of show() runs: () => this.hide()
ToastTimerFires ==
  \E t \in timers :
    /\ t.cb = "toastHide"
    /\ t.left = 0
    /\ timers' = timers \ {t}
    /\ Toast_hide
    /\ lastEvent' = Event("toastTimer", 0)
    /\ UNCHANGED <<bodyOverflow, focus>>
    /\ UNCHANGED OutsideToast

-----------------------------------------------------------------------------
(* Time.  The clock advances by at most d ms, and never past the moment a  *)
(* pending timer is due: a due timer's callback runs before later ones.    *)

Elapse(d) ==
  IF timers = {} THEN d ELSE Min({d} \cup {t.left : t \in timers})

Saturate(x, cap) == IF x > cap THEN cap ELSE x

Advance(d) ==
  /\ timers # {}
  /\ \A t \in timers : t.left > 0
  /\ timers' = {[t EXCEPT !.left = t.left - Elapse(d)] : t \in timers}
  /\ sinceShow' = IF lastShow = <<>> THEN sinceShow
                  ELSE Saturate(sinceShow + Elapse(d), toastDuration)
  /\ lastEvent' = Event("time", 0)
  /\ UNCHANGED <<bodyOverflow, focus>>
  /\ sinceResize' = IF \A t \in timers : t.cb # "resize" THEN sinceResize
                    ELSE Saturate(sinceResize + Elapse(d), resizeDelay)
  /\ UNCHANGED <<toastElement, toastTimeout, toastClassName, toastTextContent,
                 lastShow, pendingAtShow>>
  /\ UNCHANGED <<sidebarEl, overlayEl, hamburgerEl, isOpen, isMobile,
                 innerWidth, sidebarClasses, overlayActive, hamburgerActive,
                 resizeTimeout, beforeToggle>>
  /\ UNCHANGED <<carouselVars, modalVars, formVars, tabVars, appVars>>

-----------------------------------------------------------------------------
(* TestimonialCarousel.  The constructor runs init() only when there are   *)
(* two slides or more; with fewer no handler is registered, so the model   *)
(* starts from slidesLength >= 2.                                          *)

Xs == {i * XStep : i \in 0..MaxXUnits}

Slides == 0..(slidesLength - 1)

Abs(x) == IF x < 0 THEN -x ELSE x

\* JavaScript's %: the remainder takes the sign of the dividend
JsRem(a, n) == IF a >= 0 THEN a % n ELSE -((-a) % n)

\* goToSlide, lines 324-325: the index after wrapping
wrapIndexMutant(index, n) == IF index < 0 THEN 0 ELSE IF index >= n THEN n - 1 ELSE index

wrapIndexStay(index, n) ==
  IF index < 0 THEN 0 ELSE IF index >= n THEN 0 ELSE index

wrapIndex(index, n) ==
  LET i1 == IF index < 0 THEN n - 1 ELSE index
  IN  IF i1 >= n THEN 0 ELSE i1

\* updateDots(): classList.toggle('active', index === state.currentTestimonial)
updateDotsMutant(ds, cur) == [i \in DOMAIN ds |-> ds[i] \/ i = cur]

updateDots(ds, cur) == [i \in DOMAIN ds |-> i = cur]

\* goToSlide(index)
goToSlide(index) ==
  LET i == wrapIndex(index, slidesLength)
  IN  /\ trackTransform' = IF track THEN i ELSE trackTransform
      /\ currentTestimonial' = i
      /\ dots' = updateDots(dots, i)
      /\ slideAriaHidden' =
           [s \in Slides |-> IF s # i THEN "true" ELSE "false"]

next == goToSlide(currentTestimonial + 1)

prev == goToSlide(currentTestimonial - 1)

CarouselTimers(ts) == {t \in ts : t.cb = "carouselNext"}

\* stopAutoAdvance(): the timer table and the handle it leaves
stopTimers(ts, handle) == IF handle # null THEN clearTimeout(ts, handle) ELSE ts

\* startAutoAdvance(), run with the timer table ts
startAutoAdvance(ts) ==
  LET stopped == stopTimers(ts, carouselInterval)
  IN  /\ carouselInterval' = FreshId(stopped)
      /\ timers' = setInterval(stopped, "carouselNext", carouselIntervalMs)

stopAutoAdvance ==
  /\ timers' = stopTimers(timers, carouselInterval)
  /\ carouselInterval' = null

CarouselIdle ==
  /\ slidesLength = 2
  /\ track = FALSE
  /\ dotsContainer = FALSE
  /\ currentTestimonial = 0
  /\ carouselInterval = null
  /\ startX = 0
  /\ currentX = 0
  /\ dots = <<>>
  /\ slideAriaHidden = [s \in Slides |-> "unset"]
  /\ trackTransform = 0
  /\ hover = FALSE
  /\ pressed = FALSE
  /\ pointerX = 0

\* createDots()
createDots ==
  IF dotsContainer THEN updateDots([s \in Slides |-> FALSE], 0) ELSE <<>>

\* the state init() leaves: createDots(), bindEvents(), startAutoAdvance()
CarouselInit ==
  /\ slidesLength \in 2..MaxSlides
  /\ track \in BOOLEAN
  /\ dotsContainer \in BOOLEAN
  /\ currentTestimonial = 0
  /\ startX = 0
  /\ currentX = 0
  /\ dots = createDots
  /\ slideAriaHidden = [s \in Slides |-> "unset"]
  /\ trackTransform = 0
  /\ hover = FALSE
  /\ pressed = FALSE
  /\ pointerX = 0
  /\ carouselInterval = NewId({})
  /\ timers = {Timer(NewId({}), "carouselNext", carouselIntervalMs,
                     carouselIntervalMs)}

\* a call of goToSlide(k)
GoToSlide(k) ==
  /\ goToSlide(k)
  /\ lastEvent' = Event("goToSlide", k)
  /\ UNCHANGED <<timers, focus, OutsideCarousel>>
  /\ UNCHANGED <<slidesLength, track, dotsContainer, carouselInterval, startX,
                 currentX, hover, pressed, pointerX>>

\* click on a dot: () => this.goToSlide(index)
ClickDot(index) ==
  /\ index \in DOMAIN dots
  /\ goToSlide(index)
  /\ lastEvent' = Event("dot", index)
  /\ UNCHANGED <<timers, focus, OutsideCarousel>>
  /\ UNCHANGED <<slidesLength, track, dotsContainer, carouselInterval, startX,
                 currentX, hover, pressed, pointerX>>

\* click on #next
ClickNext ==
  /\ next
  /\ lastEvent' = Event("next", currentTestimonial)
  /\ UNCHANGED <<timers, focus, OutsideCarousel>>
  /\ UNCHANGED <<slidesLength, track, dotsContainer, carouselInterval, startX,
                 currentX, hover, pressed, pointerX>>

\* click on #prev
ClickPrev ==
  /\ prev
  /\ lastEvent' = Event("prev", currentTestimonial)
  /\ UNCHANGED <<timers, focus, OutsideCarousel>>
  /\ UNCHANGED <<slidesLength, track, dotsContainer, carouselInterval, startX,
                 currentX, hover, pressed, pointerX>>

\* keydown on the track, which has the focus within
KeyDownTrack(key) ==
  /\ track
  /\ focus = "track"
  /\ IF key = "ArrowLeft" THEN prev ELSE next
  /\ lastEvent' = Event(key, currentTestimonial)
  /\ UNCHANGED <<timers, focus, OutsideCarousel>>
  /\ UNCHANGED <<slidesLength, track, dotsContainer, carouselInterval, startX,
                 currentX, hover, pressed, pointerX>>

NavUnchanged == UNCHANGED <<slidesLength, track, dotsContainer,
                            currentTestimonial, dots, slideAriaHidden,
                            trackTransform>>

MouseEnter ==
  /\ track
  /\ ~hover
  /\ hover' = TRUE
  /\ stopAutoAdvance
  /\ lastEvent' = Event("mouseenter", 0)
  /\ NavUnchanged
  /\ UNCHANGED <<focus, OutsideCarousel, startX, currentX, pressed, pointerX>>

MouseLeave ==
  /\ track
  /\ hover
  /\ hover' = FALSE
  /\ startAutoAdvance(timers)
  /\ lastEvent' = Event("mouseleave", 0)
  /\ NavUnchanged
  /\ UNCHANGED <<focus, OutsideCarousel, startX, currentX, pressed, pointerX>>

FocusIn ==
  /\ track
  /\ focus # "track"
  /\ focus' = "track"
  /\ stopAutoAdvance
  /\ lastEvent' = Event("focusin", 0)
  /\ NavUnchanged
  /\ UNCHANGED <<OutsideCarousel, startX, currentX, hover, pressed, pointerX>>

FocusOut ==
  /\ track
  /\ focus = "track"
  /\ focus' = "body"
  /\ startAutoAdvance(timers)
  /\ lastEvent' = Event("focusout", 0)
  /\ NavUnchanged
  /\ UNCHANGED <<OutsideCarousel, startX, currentX, hover, pressed, pointerX>>

\* mousedown / touchstart on the track at pageX = x
HandleStart(x) ==
  /\ track
  /\ ~pressed
  /\ pressed' = TRUE
  /\ pointerX' = x
  /\ startX' = x
  /\ stopAutoAdvance
  /\ lastEvent' = Event("handleStart", x)
  /\ NavUnchanged
  /\ UNCHANGED <<focus, OutsideCarousel, currentX, hover>>

\* mousemove / touchmove on the document to pageX = x
HandleMove(x) ==
  /\ track
  /\ pointerX' = x
  /\ currentX' = IF startX = 0 THEN currentX ELSE x
  /\ lastEvent' = Event("handleMove", x)
  /\ NavUnchanged
  /\ UNCHANGED <<timers, focus, OutsideCarousel, carouselInterval, startX, hover,
                 pressed>>

\* mouseup / touchend on the document
HandleEnd ==
  /\ track
  /\ pressed' = FALSE
  /\ lastEvent' = Event("handleEnd", 0)
  /\ IF startX = 0
     THEN /\ NavUnchanged
          /\ UNCHANGED <<timers, carouselInterval, startX, currentX>>
     ELSE LET diff == startX - currentX
          IN  /\ IF Abs(diff) > threshold
                 THEN IF diff > 0 THEN next ELSE prev
                 ELSE UNCHANGED <<currentTestimonial, dots, slideAriaHidden,
                                  trackTransform>>
              /\ startX' = 0
              /\ currentX' = 0
              /\ startAutoAdvance(timers)
              /\ UNCHANGED <<slidesLength, track, dotsContainer>>
  /\ UNCHANGED <<focus, OutsideCarousel, hover, pointerX>>

\* the auto-advance interval is due: () => this.next()
CarouselTimerFires ==
  \E t \in timers :
    /\ t.cb = "carouselNext"
    /\ t.left = 0
    /\ timers' = (timers \ {t}) \cup {[t EXCEPT !.left = t.period]}
    /\ next
    /\ lastEvent' = Event("carouselTimer", currentTestimonial)
    /\ UNCHANGED <<focus, OutsideCarousel>>
    /\ UNCHANGED <<slidesLength, track, dotsContainer, carouselInterval,
                   startX, currentX, hover, pressed, pointerX>>

-----------------------------------------------------------------------------
(* SidebarManager *)

Widths == {mobileBreakpoint - 1, mobileBreakpoint}

\* openSidebar()
openSidebar(cls, mobile) ==
  (cls \ {"collapsed"}) \cup (IF mobile THEN {"sidebar-expanded"} ELSE {})

\* closeSidebar()
closeSidebar(cls) == (cls \cup {"collapsed"}) \ {"sidebar-expanded"}

\* setInitialState()
setInitialState(cls) ==
  IF ~sidebarEl THEN cls
  ELSE IF isMobile THEN closeSidebar(cls)
  ELSE openSidebar(cls, isMobile)

\* the constructor: isOpen = false, setInitialState(), bindEvents()
SidebarInit ==
  /\ sidebarEl \in BOOLEAN
  /\ overlayEl \in BOOLEAN
  /\ hamburgerEl \in BOOLEAN
  /\ innerWidth \in Widths
  /\ isMobile = (innerWidth < mobileBreakpoint)
  /\ isOpen = FALSE
  /\ sidebarClasses = setInitialState({})
  /\ overlayActive = FALSE
  /\ hamburgerActive = FALSE
  /\ resizeTimeout = null
  /\ beforeToggle = <<>>
  /\ sinceResize = 0

SidebarIdle ==
  /\ sidebarEl = FALSE
  /\ overlayEl = FALSE
  /\ hamburgerEl = FALSE
  /\ innerWidth = mobileBreakpoint
  /\ isMobile = FALSE
  /\ isOpen = FALSE
  /\ sidebarClasses = {}
  /\ overlayActive = FALSE
  /\ hamburgerActive = FALSE
  /\ resizeTimeout = null
  /\ beforeToggle = <<>>
  /\ sinceResize = 0

\* the overflow close() leaves on the body
closeOverflow(o) == ""

\* SidebarManager.open(), with f the element that has the focus
Sidebar_open(f) ==
  IF ~sidebarEl \/ ~overlayEl
  THEN /\ focus' = f
       /\ UNCHANGED <<sidebarClasses, overlayActive, hamburgerActive,
                      bodyOverflow, isOpen>>
  ELSE /\ sidebarClasses' = sidebarClasses \cup {"sidebar-expanded"}
       /\ overlayActive' = TRUE
       /\ hamburgerActive' = (hamburgerEl \/ hamburgerActive)
       /\ bodyOverflow' = "hidden"
       /\ isOpen' = TRUE
       /\ focus' = "navLink"

\* SidebarManager.close(), with f the element that has the focus
Sidebar_close(f) ==
  IF ~sidebarEl \/ ~overlayEl
  THEN /\ focus' = f
       /\ UNCHANGED <<sidebarClasses, overlayActive, hamburgerActive,
                      bodyOverflow, isOpen>>
  ELSE /\ sidebarClasses' = sidebarClasses \ {"sidebar-expanded"}
       /\ overlayActive' = FALSE
       /\ hamburgerActive' = (hamburgerActive /\ ~hamburgerEl)
       /\ bodyOverflow' = closeOverflow(bodyOverflow)
       /\ isOpen' = FALSE
       /\ focus' = IF hamburgerEl THEN "hamburger" ELSE f

\* toggleDesktop()
toggleDesktop(cls) ==
  IF "collapsed" \in cls THEN cls \ {"collapsed"} ELSE cls \cup {"collapsed"}

\* toggle() that opens and closes whatever the viewport class is
Sidebar_toggleMutant(f) ==
  IF isOpen THEN Sidebar_close(f) ELSE Sidebar_open(f)

\* toggle(), with f the element that has the focus
Sidebar_toggle(f) ==
  IF isMobile
  THEN IF isOpen THEN Sidebar_close(f) ELSE Sidebar_open(f)
  ELSE /\ sidebarClasses' = IF sidebarEl THEN toggleDesktop(sidebarClasses)
                            ELSE sidebarClasses
       /\ focus' = f
       /\ UNCHANGED <<overlayActive, hamburgerActive, bodyOverflow, isOpen>>

SidebarFixed == UNCHANGED <<sidebarEl, overlayEl, hamburgerEl>>

\* what two toggle() calls are compared on
Snapshot == <<isMobile, isOpen, overlayActive, sidebarClasses, bodyOverflow>>

\* click, Enter or Space on the hamburger
HamburgerToggle ==
  /\ hamburgerEl
  /\ Sidebar_toggle("hamburger")
  /\ beforeToggle' = Snapshot
  /\ lastEvent' = Event("toggle", 0)
  /\ SidebarFixed
  /\ UNCHANGED <<timers, isMobile, innerWidth, resizeTimeout, sinceResize>>
  /\ UNCHANGED <<modalVars, OutsidePage>>

\* click on the overlay
OverlayClick ==
  /\ overlayEl
  /\ Sidebar_close(focus)
  /\ lastEvent' = Event("overlayClick", 0)
  /\ beforeToggle' = <<>>
  /\ SidebarFixed
  /\ UNCHANGED <<timers, isMobile, innerWidth, resizeTimeout, sinceResize>>
  /\ UNCHANGED <<modalVars, OutsidePage>>

\* click on a .nav-link
NavLinkClick ==
  /\ IF isMobile
     THEN Sidebar_close("navLink")
     ELSE /\ focus' = "navLink"
          /\ UNCHANGED <<sidebarClasses, overlayActive, hamburgerActive,
                         bodyOverflow, isOpen>>
  /\ lastEvent' = Event("navLinkClick", 0)
  /\ beforeToggle' = <<>>
  /\ SidebarFixed
  /\ UNCHANGED <<timers, isMobile, innerWidth, resizeTimeout, sinceResize>>
  /\ UNCHANGED <<modalVars, OutsidePage>>

ResizeTimers(ts) == {t \in ts : t.cb = "resize"}

\* handleResize(): the timer table once the pending callback is cancelled
resizeClearMutant(ts, handle) == ts

resizeClear(ts, handle) == clearTimeout(ts, handle)

\* a resize event with the window now w wide: handleResize()
Resize(w) ==
  /\ innerWidth' = w
  /\ LET cleared == resizeClear(timers, resizeTimeout)
     IN  /\ resizeTimeout' = FreshId(cleared)
         /\ timers' = setTimeout(cleared, "resize", resizeDelay)
  /\ sinceResize' = 0
  /\ lastEvent' = Event("resize", 0)
  /\ beforeToggle' = <<>>
  /\ SidebarFixed
  /\ UNCHANGED <<isOpen, isMobile, sidebarClasses, overlayActive,
                 hamburgerActive, bodyOverflow, focus>>
  /\ UNCHANGED <<modalVars, OutsidePage>>

\* the debounced callback of handleResize() runs
ResizeTimerFires ==
  \E t \in timers :
    /\ t.cb = "resize"
    /\ t.left = 0
    /\ timers' = timers \ {t}
    /\ isMobile' = (innerWidth < mobileBreakpoint)
    /\ IF isMobile'
       THEN IF isOpen
            THEN Sidebar_close(focus)
            ELSE UNCHANGED <<sidebarClasses, overlayActive, hamburgerActive,
                             bodyOverflow, isOpen, focus>>
       ELSE /\ overlayActive' = (overlayActive /\ ~overlayEl)
            /\ bodyOverflow' = ""
            /\ isOpen' = FALSE
            /\ UNCHANGED <<sidebarClasses, hamburgerActive, focus>>
    /\ lastEvent' = Event("resizeTimer", 0)
    /\ beforeToggle' = <<>>
    /\ SidebarFixed
    /\ UNCHANGED <<innerWidth, resizeTimeout, sinceResize>>
    /\ UNCHANGED <<modalVars, OutsidePage>>

-----------------------------------------------------------------------------
(* ImageModal.  The constructor binds the handlers only when #imageModal   *)
(* is present, so the model starts with the modal root in the page.        *)

\* the .view-btn triggers: two with a data-image, one without
Triggers == {"A", "B", "none"}

\* button.getAttribute('data-image')
DataImage(button) == IF button = "none" THEN "" ELSE button

Loading == <<"loading", null, "">>

ModalInit ==
  /\ modalContentEl \in BOOLEAN
  /\ modalOpen = FALSE
  /\ modalContent = <<"empty", null, "">>
  /\ imageLoads = {}
  /\ lastOpened = <<null, "">>
  /\ pendingAtOpen = 0

ModalIdle ==
  /\ modalContentEl = FALSE
  /\ modalOpen = FALSE
  /\ modalContent = <<"empty", null, "">>
  /\ imageLoads = {}
  /\ lastOpened = <<null, "">>
  /\ pendingAtOpen = 0

\* a new Image(): one that is neither loading nor on display
NewImage ==
  NewId({l.id : l \in imageLoads} \cup {modalContent[2], lastOpened[1]})

\* open(): the early return
openAbortsMutant(imgSrc) == ~modalContentEl

openAborts(imgSrc) == imgSrc = "" \/ ~modalContentEl

\* click on a .view-btn: open(button)
Open(button) ==
  /\ Cardinality(imageLoads) < MaxLoads
  /\ lastEvent' = Event("open", button)
  /\ IF openAborts(DataImage(button))
     THEN UNCHANGED <<modalVars, bodyOverflow, focus>>
     ELSE /\ modalContent' = Loading
          /\ imageLoads' = imageLoads \cup
                             {[id |-> NewImage, src |-> DataImage(button)]}
          /\ lastOpened' = <<NewImage, DataImage(button)>>
          /\ pendingAtOpen' = Cardinality(imageLoads)
          /\ modalOpen' = TRUE
          /\ bodyOverflow' = "hidden"
          /\ focus' = "modalClose"
          /\ UNCHANGED modalContentEl
  /\ UNCHANGED <<timers, sidebarVars, OutsidePage>>

\* img.onload
ImageLoaded ==
  \E l \in imageLoads :
    /\ imageLoads' = imageLoads \ {l}
    /\ modalContent' = <<"img", l.id, l.src>>
    /\ lastEvent' = Event("onload", 0)
    /\ UNCHANGED <<modalContentEl, modalOpen, lastOpened, pendingAtOpen>>
    /\ UNCHANGED <<timers, bodyOverflow, focus, sidebarVars, OutsidePage>>

\* img.onerror
ImageFailed ==
  \E l \in imageLoads :
    /\ imageLoads' = imageLoads \ {l}
    /\ modalContent' = <<"error", l.id, l.src>>
    /\ lastEvent' = Event("onerror", 0)
    /\ UNCHANGED <<modalContentEl, modalOpen, lastOpened, pendingAtOpen>>
    /\ UNCHANGED <<timers, bodyOverflow, focus, sidebarVars, OutsidePage>>

\* ImageModal.close()
Modal_close ==
  /\ modalOpen' = FALSE
  /\ bodyOverflow' = ""
  /\ UNCHANGED <<modalContentEl, modalContent, imageLoads, lastOpened,
                 pendingAtOpen>>

\* click on the close control or on the backdrop
CloseClick ==
  /\ Modal_close
  /\ lastEvent' = Event("close", 0)
  /\ UNCHANGED <<timers, focus, sidebarVars, OutsidePage>>

\* Escape on the document: the sidebar's keydown handler runs, then the
\* modal's
KeyEscape ==
  /\ lastEvent' = Event("Escape", 0)
  /\ beforeToggle' = <<>>
  /\ LET sidebarCloses == isOpen /\ isMobile /\ sidebarEl /\ overlayEl
     IN  /\ IF sidebarCloses
            THEN /\ sidebarClasses' = sidebarClasses \ {"sidebar-expanded"}
                 /\ overlayActive' = FALSE
                 /\ hamburgerActive' = (hamburgerActive /\ ~hamburgerEl)
                 /\ isOpen' = FALSE
                 /\ focus' = IF hamburgerEl THEN "hamburger" ELSE focus
            ELSE UNCHANGED <<sidebarClasses, overlayActive, hamburgerActive,
                             isOpen, focus>>
         /\ modalOpen' = FALSE
         /\ bodyOverflow' = IF modalOpen THEN ""
                            ELSE IF sidebarCloses
                                 THEN closeOverflow(bodyOverflow)
                                 ELSE bodyOverflow
  /\ SidebarFixed
  /\ UNCHANGED <<isMobile, innerWidth, resizeTimeout, sinceResize>>
  /\ UNCHANGED <<modalContentEl, modalContent, imageLoads, lastOpened,
                 pendingAtOpen>>
  /\ UNCHANGED <<timers, OutsidePage>>

-----------------------------------------------------------------------------
(* ContactForm.  The form's input and textarea elements in document       *)
(* order: a required text input, an email input, a required textarea,     *)
(* each in a parent of its own; their default values are empty.           *)

Fields == <<"name", "email", "message">>

FieldNames == {Fields[i] : i \in DOMAIN Fields}

FieldType(f) == IF f = "email" THEN "email" ELSE "text"

Required(f) == TRUE

\* what the user can have typed into a field
Typed(f) ==
  IF f = "email"
  THEN {<<>>, <<"a", "@", "b">>, <<" ", "a", "@", "b", ".", "c">>}
  ELSE IF f = "message" THEN {<<>>, <<" ">>, <<"a">>}
  ELSE {<<>>, <<"a">>}

IsSpace(c) == c = " "

RECURSIVE trimStart(_)
trimStart(str) ==
  IF str # <<>> /\ IsSpace(Head(str)) THEN trimStart(Tail(str)) ELSE str

RECURSIVE trimEnd(_)
trimEnd(str) ==
  IF str # <<>> /\ IsSpace(str[Len(str)])
  THEN trimEnd(SubSeq(str, 1, Len(str) - 1))
  ELSE str

\* String.prototype.trim()
trim(str) == trimEnd(trimStart(str))

\* [^\s@]+ matches str[from..to]
Plain(str, from, to) ==
  /\ from <= to
  /\ \A i \in from..to : ~IsSpace(str[i]) /\ str[i] # "@"

isValidEmailMutant(email) ==
  \E at \in 1..Len(email) :
    /\ email[at] = "@"
    /\ Plain(email, 1, at - 1)
    /\ Plain(email, at + 1, Len(email))

\* /^[^\s@]+@[^\s@]+\.[^\s@]+$/.test(email)
isValidEmail(email) ==
  \E at \in 1..Len(email), dot \in 1..Len(email) :
    /\ email[at] = "@"
    /\ email[dot] = "."
    /\ Plain(email, 1, at - 1)
    /\ Plain(email, at + 1, dot - 1)
    /\ Plain(email, dot + 1, Len(email))

\* the pattern of isValidEmail as an automaton.  Its states: 0 at ^,
\* 1 in the first [^\s@]+, 2 past the @, 3 in the second [^\s@]+, 4 past
\* the \. and 5 in the third [^\s@]+, where $ matches
PatternStep(q, c) ==
  LET plain == ~IsSpace(c) /\ c # "@"
  IN  (IF plain /\ q \in {0, 1} THEN {1} ELSE {})
        \cup (IF c = "@" /\ q = 1 THEN {2} ELSE {})
        \cup (IF plain /\ q \in {2, 3} THEN {3} ELSE {})
        \cup (IF c = "." /\ q = 3 THEN {4} ELSE {})
        \cup (IF plain /\ q \in {4, 5} THEN {5} ELSE {})

RECURSIVE PatternRun(_, _)
PatternRun(qs, str) ==
  IF str = <<>> THEN qs
  ELSE PatternRun(UNION {PatternStep(q, Head(str)) : q \in qs}, Tail(str))

MatchesPattern(str) == 5 \in PatternRun({0}, str)

\* validateField(field): <<isValid, message>>
validateField(f, value) ==
  IF FieldType(f) = "email"
  THEN IF isValidEmail(trim(value)) THEN <<TRUE, "">>
       ELSE <<FALSE, "Please enter a valid email address">>
  ELSE IF Required(f) /\ trim(value) = <<>>
       THEN <<FALSE, "This field is required">>
       ELSE <<TRUE, "">>

IsValid(f) == validateField(f, fieldValue[f])[1]

\* the fields handleSubmit validates: fields.forEach(...)
validatedMutant(vals) ==
  {Fields[i] : i \in {i \in DOMAIN Fields :
     \A j \in 1..(i - 1) : validateField(Fields[j], vals[Fields[j]])[1]}}

validated(vals) == FieldNames

\* setFieldValidity(field, isValid, message) on the fields of the set fs
setFieldValidity(fs) ==
  /\ ariaInvalid' = [f \in FieldNames |->
       IF f \in fs THEN (IF IsValid(f) THEN "false" ELSE "true")
       ELSE ariaInvalid[f]]
  /\ fieldError' = [f \in FieldNames |->
       IF f \in fs THEN validateField(f, fieldValue[f])[2]
       ELSE fieldError[f]]
  /\ errorClass' = [f \in FieldNames |->
       IF f \in fs THEN ~IsValid(f) ELSE errorClass[f]]

\* form.querySelector('[aria-invalid="true"]'), given the attributes
firstInvalid(aria) ==
  LET bad == {i \in DOMAIN Fields : aria[Fields[i]] = "true"}
  IN  IF bad = {} THEN "" ELSE Fields[Min(bad)]

FormInit ==
  /\ fieldValue = [f \in FieldNames |-> <<>>]
  /\ ariaInvalid = [f \in FieldNames |-> "unset"]
  /\ fieldError = [f \in FieldNames |-> ""]
  /\ errorClass = [f \in FieldNames |-> FALSE]
  /\ submitDisabled = FALSE
  /\ resetDisabled = FALSE
  /\ submitLoading = FALSE
  /\ submitLabel = "Send Message"

\* setFormState(state)
setFormState(st) ==
  /\ submitDisabled' = (st = "loading")
  /\ resetDisabled' = (st = "loading")
  /\ submitLoading' = (st = "loading")
  /\ submitLabel' = IF st = "loading" THEN "Sending..." ELSE "Send Message"

\* the state the finally block of handleSubmit sets
finallyStateMutant(outcome) == IF outcome = "reject" THEN "loading" ELSE "idle"

finallyState(outcome) == "idle"

SubmitTimers(ts) == {t \in ts : t.cb = "submit"}

\* the user types into a field: the 'input' handler, clearFieldError(field)
Input(f, value) ==
  /\ value # fieldValue[f]
  /\ fieldValue' = [fieldValue EXCEPT ![f] = value]
  /\ focus' = f
  /\ errorClass' = [errorClass EXCEPT ![f] = FALSE]
  /\ ariaInvalid' = [ariaInvalid EXCEPT ![f] = "unset"]
  /\ fieldError' = [fieldError EXCEPT ![f] = ""]
  /\ lastEvent' = Event("input", 0)
  /\ UNCHANGED <<submitDisabled, resetDisabled, submitLoading, submitLabel>>
  /\ UNCHANGED <<timers, toastVars, OutsideForm>>

\* the focus leaves a field: the 'blur' handler, validateField(field)
Blur(f) ==
  /\ focus = f
  /\ focus' = "body"
  /\ setFieldValidity({f})
  /\ lastEvent' = Event("blur", 0)
  /\ UNCHANGED <<fieldValue, submitDisabled, resetDisabled, submitLoading,
                 submitLabel>>
  /\ UNCHANGED <<timers, toastVars, OutsideForm>>

\* a submit event: handleSubmit(e), up to its return or its await
Submit ==
  /\ Cardinality(SubmitTimers(timers)) < MaxPending
  /\ lastEvent' = Event("submit", 0)
  /\ setFieldValidity(validated(fieldValue))
  /\ IF \E f \in validated(fieldValue) : ~IsValid(f)
     THEN /\ Toast_show("Please fix the errors in the form", "error", timers)
          /\ focus' = IF firstInvalid(ariaInvalid') = "" THEN focus
                      ELSE firstInvalid(ariaInvalid')
          /\ UNCHANGED <<submitDisabled, resetDisabled, submitLoading,
                         submitLabel>>
     ELSE /\ setFormState("loading")
          /\ timers' = setTimeout(timers, "submit", submitDelay)
          /\ UNCHANGED <<focus, toastVars>>
  /\ UNCHANGED <<fieldValue, OutsideForm>>

\* the timer of submitForm() is due and Math.random() decides; handleSubmit
\* resumes after its await
SubmitSettles(outcome) ==
  \E t \in timers :
    /\ t.cb = "submit"
    /\ t.left = 0
    /\ lastEvent' = Event(outcome, 0)
    /\ IF outcome = "resolve"
       THEN /\ fieldValue' = [f \in FieldNames |-> <<>>]
            /\ Toast_show(
                 "Message sent successfully! I will get back to you soon.",
                 "success", timers \ {t})
       ELSE /\ UNCHANGED fieldValue
            /\ Toast_show("Failed to send message. Please try again.",
                          "error", timers \ {t})
    /\ setFormState(finallyState(outcome))
    /\ UNCHANGED <<ariaInvalid, fieldError, errorClass, focus, OutsideForm>>

\* click on the reset button: the browser resets the form
ResetClick ==
  /\ ~resetDisabled
  /\ fieldValue' = [f \in FieldNames |-> <<>>]
  /\ lastEvent' = Event("reset", 0)
  /\ UNCHANGED <<ariaInvalid, fieldError, errorClass, submitDisabled,
                 resetDisabled, submitLoading, submitLabel>>
  /\ UNCHANGED <<timers, focus, toastVars, OutsideForm>>

-----------------------------------------------------------------------------
(* TabManager.  Two tab groups; pane i of a group has the id <<group, i>>. *)
(* A link names its target in a data attribute: the markup decides whether *)
(* that is the id of its own pane, of a pane of the other group, of some   *)
(* other element of the page, or of no element at all.                     *)

Groups == {"portfolio", "branding"}

LinksOf(g) == {<<g, i>> : i \in 1..TabsPerGroup}

PanesOf(g) == {<<g, i>> : i \in 1..TabsPerGroup}

Links == UNION {LinksOf(g) : g \in Groups}

OtherElement == <<"other", 0>>

NoElement == <<"missing", 0>>

\* the elements document.getElementById can return
Elements == UNION {PanesOf(g) : g \in Groups} \cup {OtherElement}

OtherGroup(g) == IF g = "portfolio" THEN "branding" ELSE "portfolio"

\* the values the data attribute of a link can have
TargetsOf(link) ==
  {link, <<OtherGroup(link[1]), 1>>, OtherElement, NoElement}

TabsInit ==
  /\ linkTarget \in {t \in [Links -> Elements \cup {NoElement}] :
                       \A l \in Links : t[l] \in TargetsOf(l)}
  /\ linkActive = [l \in Links |-> l[2] = 1]
  /\ paneActive = [e \in Elements |-> e[2] = 1]
  /\ ariaHidden = [e \in Elements |-> "unset"]
  /\ activatedLink = NoElement

TabsIdle ==
  /\ linkTarget = [l \in Links |-> l]
  /\ linkActive = [l \in Links |-> l[2] = 1]
  /\ paneActive = [e \in Elements |-> e[2] = 1]
  /\ ariaHidden = [e \in Elements |-> "unset"]
  /\ activatedLink = NoElement

\* allPanes.forEach(pane => pane.classList.remove('active'))
deactivatePanesMutant(active, panes) == active

deactivatePanes(active, panes) ==
  [e \in Elements |-> IF e \in panes THEN FALSE ELSE active[e]]

\* activateTab(activeLink, allLinks, allPanes, dataAttribute)
activateTab(activeLink, allLinks, allPanes) ==
  LET targetId == linkTarget[activeLink]
      cleared == deactivatePanes(paneActive, allPanes)
  IN  /\ linkActive' = [l \in Links |->
                          IF l = activeLink THEN TRUE
                          ELSE IF l \in allLinks THEN FALSE
                          ELSE linkActive[l]]
      /\ IF targetId \in Elements
         THEN /\ paneActive' = [cleared EXCEPT ![targetId] = TRUE]
              /\ ariaHidden' = [e \in Elements |->
                                  IF e = targetId THEN "false"
                                  ELSE IF e \in allPanes THEN "true"
                                  ELSE ariaHidden[e]]
         ELSE /\ paneActive' = cleared
              /\ UNCHANGED ariaHidden

\* click on a tab link
TabClick(link) ==
  /\ activateTab(link, LinksOf(link[1]), PanesOf(link[1]))
  /\ activatedLink' = link
  /\ lastEvent' = Event("activateTab", link[2])
  /\ UNCHANGED <<linkTarget, OutsideTabs>>

-----------------------------------------------------------------------------
(* The window's beforeunload handler *)

BeforeUnload ==
  /\ timers' = stopTimers(stopTimers(timers, carouselInterval), resizeTimeout)
  /\ lastEvent' = Event("beforeunload", 0)
  /\ UNCHANGED <<bodyOverflow, focus>>
  /\ UNCHANGED <<toastVars, carouselVars, sidebarVars, modalVars, formVars,
                 tabVars, appVars>>

-----------------------------------------------------------------------------
(* The carousel alone *)

InitCarousel ==
  /\ bodyOverflow = ""
  /\ focus = "body"
  /\ lastEvent = Event("load", 0)
  /\ AppLoaded
  /\ ToastInit
  /\ toastElement
  /\ CarouselInit
  /\ SidebarIdle
  /\ ModalIdle
  /\ FormInit
  /\ TabsIdle

NextCarousel ==
  \/ \E k \in (0 - KSlack)..(slidesLength + KSlack) : GoToSlide(k)
  \/ \E i \in Slides : ClickDot(i)
  \/ ClickNext
  \/ ClickPrev
  \/ \E key \in {"ArrowLeft", "ArrowRight"} : KeyDownTrack(key)
  \/ MouseEnter
  \/ MouseLeave
  \/ FocusIn
  \/ FocusOut
  \/ \E x \in Xs : HandleStart(x)
  \/ \E x \in Xs : HandleMove(x)
  \/ HandleEnd
  \/ CarouselTimerFires
  \/ BeforeUnload
  \/ Advance(carouselIntervalMs \div CarouselTicks)

SpecCarousel == InitCarousel /\ [][NextCarousel]_vars

-----------------------------------------------------------------------------
(* The sidebar and the image modal, which share the body's overflow, the   *)
(* focus and the Escape key                                                *)

PageLoad ==
  /\ timers = {}
  /\ bodyOverflow = ""
  /\ focus = "body"
  /\ lastEvent = Event("load", 0)
  /\ AppLoaded
  /\ ToastInit
  /\ toastElement
  /\ CarouselIdle
  /\ FormInit
  /\ TabsIdle

SidebarEvent ==
  \/ HamburgerToggle
  \/ OverlayClick
  \/ NavLinkClick
  \/ \E w \in Widths : Resize(w)
  \/ ResizeTimerFires

ModalEvent ==
  \/ \E b \in Triggers : Open(b)
  \/ ImageLoaded
  \/ ImageFailed
  \/ CloseClick

\* the sidebar alone, in a page without the image modal
InitSidebar == PageLoad /\ SidebarInit /\ ModalIdle

NextSidebar ==
  \/ SidebarEvent
  \/ KeyEscape
  \/ BeforeUnload
  \/ Advance(resizeDelay \div ResizeTicks)

SpecSidebar == InitSidebar /\ [][NextSidebar]_vars

\* the image modal alone, in a page without the sidebar
InitModal == PageLoad /\ SidebarIdle /\ ModalInit

NextModal ==
  \/ ModalEvent
  \/ KeyEscape

SpecModal == InitModal /\ [][NextModal]_vars

\* both, in a page that has all their elements and one image trigger
InitPage ==
  /\ PageLoad
  /\ SidebarInit
  /\ sidebarEl /\ overlayEl /\ hamburgerEl
  /\ ModalInit
  /\ modalContentEl

NextPage ==
  \/ SidebarEvent
  \/ Open("A")
  \/ ImageLoaded
  \/ ImageFailed
  \/ CloseClick
  \/ KeyEscape
  \/ BeforeUnload
  \/ Advance(resizeDelay \div ResizeTicks)

SpecPage == InitPage /\ [][NextPage]_vars

-----------------------------------------------------------------------------
(* The contact form and the toast it reports on *)

InitForm ==
  /\ BrowserInit
  /\ ToastInit
  /\ CarouselIdle
  /\ SidebarIdle
  /\ ModalIdle
  /\ FormInit
  /\ TabsIdle

NextForm ==
  \/ \E f \in FieldNames : \E value \in Typed(f) : Input(f, value)
  \/ \E f \in FieldNames : Blur(f)
  \/ Submit
  \/ \E outcome \in {"resolve", "reject"} : SubmitSettles(outcome)
  \/ ResetClick
  \/ ToastTimerFires
  \/ Advance(submitDelay)

SpecForm == InitForm /\ [][NextForm]_vars

\* the same page, which the user can also leave, and where toast.hide() is
\* also called directly
NextUnload ==
  \/ \E f \in FieldNames : \E value \in Typed(f) : Input(f, value)
  \/ Submit
  \/ \E outcome \in {"resolve", "reject"} : SubmitSettles(outcome)
  \/ ToastTimerFires
  \/ Hide
  \/ BeforeUnload
  \/ Advance(submitDelay)

SpecUnload == InitForm /\ [][NextUnload]_vars

-----------------------------------------------------------------------------
(* The e-mail field alone: the user has typed a value and leaves the field *)

Alphabet == {"@", ".", " ", "a"}

UserAtExample ==
  <<"u", "s", "e", "r", "@", "e", "x", "a", "m", "p", "l", "e", ".", "c",
    "o", "m">>

EmailValues ==
  UNION {[1..n -> Alphabet] : n \in 0..MaxEmailLen} \cup {UserAtExample}

InitEmail ==
  /\ timers = {}
  /\ bodyOverflow = ""
  /\ focus = "email"
  /\ lastEvent = Event("input", 0)
  /\ AppLoaded
  /\ ToastInit
  /\ toastElement
  /\ CarouselIdle
  /\ SidebarIdle
  /\ ModalIdle
  /\ fieldValue \in {[f \in FieldNames |-> IF f = "email" THEN v ELSE <<>>] :
                        v \in EmailValues}
  /\ ariaInvalid = [f \in FieldNames |-> "unset"]
  /\ fieldError = [f \in FieldNames |-> ""]
  /\ errorClass = [f \in FieldNames |-> FALSE]
  /\ submitDisabled = FALSE
  /\ resetDisabled = FALSE
  /\ submitLoading = FALSE
  /\ submitLabel = "Send Message"
  /\ TabsIdle

NextEmail == Blur("email")

SpecEmail == InitEmail /\ [][NextEmail]_vars

-----------------------------------------------------------------------------
(* The tab groups alone *)

InitTabs ==
  /\ BrowserInit
  /\ ToastInit
  /\ toastElement
  /\ CarouselIdle
  /\ SidebarIdle
  /\ ModalIdle
  /\ FormInit
  /\ TabsInit

NextTabs == \E link \in Links : TabClick(link)

SpecTabs == InitTabs /\ [][NextTabs]_vars

-----------------------------------------------------------------------------
(* The toast alone: show() and hide() called in any order *)

InitToast ==
  /\ BrowserInit
  /\ ToastInit
  /\ CarouselIdle
  /\ SidebarIdle
  /\ ModalIdle
  /\ FormInit
  /\ TabsIdle

NextToast ==
  \/ \E m \in Messages, type \in Severities : Show(m, type)
  \/ Hide
  \/ ToastTimerFires
  \/ Advance(toastDuration \div ToastTicks)

SpecToast == InitToast /\ [][NextToast]_vars

-----------------------------------------------------------------------------
(* PortfolioApp.init().  Its input is the step that throws: one of the     *)
(* constructors (before it has changed anything), the utilities that run   *)
(* before them, setupPerformanceMonitoring() that runs after them (where   *)
(* `process` is not defined), or none.                                     *)

Throwers ==
  {ComponentOrder[i] : i \in DOMAIN ComponentOrder}
    \cup {"utilities", "monitoring", "none"}

\* the components whose constructor has returned when thrower throws
constructedMutant(thrower) ==
  SelectSeq(ComponentOrder, LAMBDA c : c # thrower /\ thrower # "utilities")

constructed(thrower) ==
  IF thrower = "utilities" THEN <<>>
  ELSE IF \E i \in DOMAIN ComponentOrder : ComponentOrder[i] = thrower
       THEN SubSeq(ComponentOrder, 1,
                   (CHOOSE i \in DOMAIN ComponentOrder :
                      ComponentOrder[i] = thrower) - 1)
       ELSE ComponentOrder

InSeq(c, seq) == \E i \in DOMAIN seq : seq[i] = c

\* this.components has the key c: the handlers of c are bound
Registered(c) == InSeq(c, components)

AppInit(thrower) ==
  /\ initLog = "none"
  /\ components' = constructed(thrower)
  /\ initLog' = IF thrower = "none" THEN "success" ELSE "error"
  /\ sidebarClasses' = IF InSeq("sidebar", components')
                        THEN setInitialState(sidebarClasses)
                        ELSE sidebarClasses
  /\ IF InSeq("carousel", components')
     THEN /\ dots' = createDots
          /\ startAutoAdvance(timers)
     ELSE UNCHANGED <<dots, timers, carouselInterval>>
  /\ lastEvent' = Event("init", thrower)
  /\ UNCHANGED <<bodyOverflow, focus, toastVars, modalVars, formVars, tabVars>>
  /\ UNCHANGED <<slidesLength, track, dotsContainer, currentTestimonial,
                 startX, currentX, slideAriaHidden, trackTransform, hover,
                 pressed, pointerX>>
  /\ UNCHANGED <<sidebarEl, overlayEl, hamburgerEl, isOpen, isMobile,
                 innerWidth, overlayActive, hamburgerActive, resizeTimeout,
                 beforeToggle, sinceResize>>

\* the page when the script has been evaluated and init() has not run: all
\* the elements the components look up are there, with two testimonials
InitApp ==
  /\ timers = {}
  /\ bodyOverflow = ""
  /\ focus = "body"
  /\ lastEvent = Event("script", 0)
  /\ components = <<>>
  /\ initLog = "none"
  /\ ToastInit
  /\ toastElement
  /\ slidesLength = 2
  /\ track = TRUE
  /\ dotsContainer = TRUE
  /\ currentTestimonial = 0
  /\ carouselInterval = null
  /\ startX = 0
  /\ currentX = 0
  /\ dots = <<>>
  /\ slideAriaHidden = [s \in Slides |-> "unset"]
  /\ trackTransform = 0
  /\ hover = FALSE
  /\ pressed = FALSE
  /\ pointerX = 0
  /\ sidebarEl = TRUE
  /\ overlayEl = TRUE
  /\ hamburgerEl = TRUE
  /\ innerWidth \in Widths
  /\ isMobile = (innerWidth < mobileBreakpoint)
  /\ isOpen = FALSE
  /\ sidebarClasses = {}
  /\ overlayActive = FALSE
  /\ hamburgerActive = FALSE
  /\ resizeTimeout = null
  /\ beforeToggle = <<>>
  /\ sinceResize = 0
  /\ ModalInit
  /\ modalContentEl
  /\ FormInit
  /\ TabsIdle

\* init(), then events on the components it has registered
NextApp ==
  \/ \E thrower \in Throwers : AppInit(thrower)
  \/ Registered("sidebar") /\ HamburgerToggle
  \/ Registered("carousel") /\ CarouselTimerFires
  \/ Registered("modal") /\ Open("A")
  \/ Registered("modal") /\ CloseClick
  \/ Registered("tabs") /\ \E link \in LinksOf("portfolio") : TabClick(link)
  \/ Advance(carouselIntervalMs)

SpecApp == InitApp /\ [][NextApp]_vars

-----------------------------------------------------------------------------
(* The whole page: PortfolioApp.init() has constructed every component *)

Init ==
  /\ bodyOverflow = ""
  /\ focus = "body"
  /\ lastEvent = Event("load", 0)
  /\ AppLoaded
  /\ ToastInit
  /\ CarouselInit
  /\ SidebarInit
  /\ ModalInit
  /\ FormInit
  /\ TabsInit

Next ==
  \/ NextToast
  \/ NextCarousel
  \/ NextSidebar
  \/ NextModal
  \/ NextForm
  \/ NextTabs

Spec == Init /\ [][Next]_vars

-----------------------------------------------------------------------------
(* C1 as stated: for every N >= 2 and every integer k, also k < -1 and     *)
(* k > N, goToSlide(k) sets the current index to ((k % N) + N) % N.        *)
C1_GoToSlideModular ==
  lastEvent.op = "goToSlide" =>
    currentTestimonial =
      (JsRem(lastEvent.arg, slidesLength) + slidesLength) % slidesLength

(* C1 as amended: for -1 <= k <= N goToSlide(k) sets the current index to  *)
(* ((k % N) + N) % N; for k < -1 it sets N - 1 and for k > N it sets 0.    *)
C1_GoToSlideWraps ==
  lastEvent.op = "goToSlide" =>
    LET k == lastEvent.arg
        n == slidesLength
    IN  /\ (k >= -1 /\ k <= n) => currentTestimonial = (JsRem(k, n) + n) % n
        /\ k < -1 => currentTestimonial = n - 1
        /\ k > n => currentTestimonial = 0

\* goToSlide(-1) on three slides went to the last slide
C1_Witness ==
  /\ lastEvent = Event("goToSlide", -1)
  /\ slidesLength = 3
  /\ currentTestimonial = 2

\* goToSlide(-2) on three slides went to the last slide as well
C1_WitnessFar ==
  /\ lastEvent = Event("goToSlide", -2)
  /\ slidesLength = 3
  /\ currentTestimonial = 2

(* C2 as stated: a press on the track followed by a release, with          *)
(* D = press X - release X: |D| <= threshold leaves the slide unchanged,   *)
(* also without a move in between; D > threshold goes to the next slide    *)
(* and D < -threshold to the previous one.  startX holds the press X       *)
(* while the press lasts.                                                  *)
C2_SwipeThreshold ==
  [][(pressed /\ lastEvent'.op = "handleEnd") =>
       LET D == startX - pointerX
           n == slidesLength
       IN  /\ Abs(D) <= threshold => currentTestimonial' = currentTestimonial
           /\ D > threshold =>
                currentTestimonial' = (currentTestimonial + 1) % n
           /\ D < 0 - threshold =>
                currentTestimonial' = (currentTestimonial + n - 1) % n]_vars

(* C3: with a dots container, exactly one dot carries 'active', and it is  *)
(* the dot at position state.currentTestimonial, after construction and    *)
(* after every navigation action.                                          *)
C3_OneActiveDot ==
  dotsContainer =>
    /\ DOMAIN dots = Slides
    /\ Cardinality({i \in DOMAIN dots : dots[i]}) = 1
    /\ dots[currentTestimonial]

\* prev() from the first of three slides: the third dot is the active one
C3_Witness ==
  /\ dotsContainer
  /\ slidesLength = 3
  /\ lastEvent.op = "prev"
  /\ currentTestimonial = 2
  /\ dots[2]
  /\ ~dots[0]

(* C4 as stated: while the pointer hovers the track (after mouseenter,     *)
(* before mouseleave) no auto-advance timer is running, whatever focusin,  *)
(* focusout, press and release events happen in between.                   *)
C4_HoverPauses ==
  hover => /\ CarouselTimers(timers) = {}
           /\ lastEvent.op # "carouselTimer"

ToastShows(message, type) ==
  /\ "show" \in toastClassName
  /\ SeverityClass(type) \in toastClassName
  /\ toastTextContent = message

(* C5: in a page with the toast element, when the simulated call of a      *)
(* submit that validated settles, exactly one of two things happens: the   *)
(* form is reset and the success toast is shown, or the form keeps its     *)
(* contents and the error toast is shown; either way the submit and reset  *)
(* controls are enabled and the submit button is back to its idle label.   *)
C5_SubmitOutcome ==
  [][(toastElement /\ lastEvent'.op \in {"resolve", "reject"}) =>
       LET sent ==
             /\ fieldValue' = [f \in FieldNames |-> <<>>]
             /\ ToastShows(
                  "Message sent successfully! I will get back to you soon.",
                  "success")'
           failed ==
             /\ fieldValue' = fieldValue
             /\ ToastShows("Failed to send message. Please try again.",
                           "error")'
       IN  /\ sent \/ failed
           /\ ~(sent /\ failed)
           /\ ~submitDisabled'
           /\ ~resetDisabled'
           /\ ~submitLoading'
           /\ submitLabel' = "Send Message"]_vars

\* a simulated call failed: the form is still filled in, the error toast is
\* up and the controls are enabled
C5_Witness ==
  /\ lastEvent.op = "reject"
  /\ \A f \in FieldNames : IsValid(f)
  /\ ToastShows("Failed to send message. Please try again.", "error")
  /\ ~submitDisabled
  /\ ~resetDisabled
  /\ submitLabel = "Send Message"

\* a simulated call succeeded
C5_WitnessSent ==
  /\ lastEvent.op = "resolve"
  /\ fieldValue = [f \in FieldNames |-> <<>>]
  /\ ToastShows("Message sent successfully! I will get back to you soon.",
                "success")
  /\ ~submitDisabled

(* C6: when a submit finds an invalid field, every field is validated and  *)
(* marked (aria-invalid, error class, error message), the error toast is   *)
(* shown (in a page with the toast element), the focus moves to the first  *)
(* invalid field, no simulated call is started, the controls are not       *)
(* disabled by it and the form's contents stay.                            *)
C6_InvalidSubmitAborts ==
  [][(lastEvent'.op = "submit" /\ \E f \in FieldNames : ~IsValid(f)) =>
       /\ \A f \in FieldNames :
            /\ ariaInvalid'[f] = IF IsValid(f) THEN "false" ELSE "true"
            /\ errorClass'[f] = ~IsValid(f)
            /\ (fieldError'[f] # "") = ~IsValid(f)
       /\ toastElement =>
            ToastShows("Please fix the errors in the form", "error")'
       /\ focus' = Fields[Min({i \in DOMAIN Fields : ~IsValid(Fields[i])})]
       /\ SubmitTimers(timers') = SubmitTimers(timers)
       /\ submitDisabled' = submitDisabled
       /\ resetDisabled' = resetDisabled
       /\ submitLabel' = submitLabel
       /\ fieldValue' = fieldValue]_vars

\* a submit with a valid name, an invalid email and an empty message: both
\* invalid fields are marked and the focus is on the email field
C6_Witness ==
  /\ lastEvent.op = "submit"
  /\ IsValid("name") /\ ~IsValid("email") /\ ~IsValid("message")
  /\ ariaInvalid = [f \in FieldNames |-> IF f = "name" THEN "false" ELSE "true"]
  /\ fieldError["message"] = "This field is required"
  /\ focus = "email"
  /\ SubmitTimers(timers) = {}
  /\ ~submitDisabled

(* C7: after any activateTab on a link of a tab group, exactly one link of *)
(* that group is marked active, the clicked one; exactly one pane of the   *)
(* group is marked active when the link's target is the id of a pane of    *)
(* the group, and none when it is not; never two or more.                  *)
C7_OneActiveTab ==
  activatedLink # NoElement =>
    LET g == activatedLink[1]
        target == linkTarget[activatedLink]
        active == {e \in PanesOf(g) : paneActive[e]}
    IN  /\ {l \in LinksOf(g) : linkActive[l]} = {activatedLink}
        /\ Cardinality(active) <= 1
        /\ target \in PanesOf(g) => active = {target}
        /\ target \notin PanesOf(g) => active = {}

\* the second link of a group was activated and its pane is the active one
C7_Witness ==
  /\ activatedLink = <<"portfolio", 2>>
  /\ linkTarget[activatedLink] = <<"portfolio", 2>>
  /\ paneActive[<<"portfolio", 2>>]
  /\ ~paneActive[<<"portfolio", 1>>]
  /\ ~linkActive[<<"portfolio", 1>>]

\* a link whose target names no element was activated: no pane is active
C7_WitnessNoPane ==
  /\ activatedLink = <<"portfolio", 2>>
  /\ linkTarget[activatedLink] = NoElement
  /\ linkActive[activatedLink]
  /\ \A e \in PanesOf("portfolio") : ~paneActive[e]

(* C8 as stated: page scroll stays locked for as long as the image modal   *)
(* is open (after open() succeeded, before close() ran), under every       *)
(* interleaving with the sidebar's events.                                 *)
C8_ScrollLockedWhileModalOpen ==
  modalOpen => bodyOverflow = "hidden"

(* C9 as stated: the latest open wins.  When open() was called while an    *)
(* earlier image was still loading, then once every load has settled the   *)
(* content region shows the image, or the load-error indicator, of the     *)
(* latest open().                                                          *)
C9_LatestOpenWins ==
  (pendingAtOpen > 0 /\ imageLoads = {}) =>
    /\ modalContent[1] \in {"img", "error"}
    /\ modalContent[3] = lastOpened[2]

-----------------------------------------------------------------------------
(* C10: after any sequence of Toast.show calls the toast displays only the *)
(* message and severity class of the most recent call; while it is shown   *)
(* its auto-hide timer is the one of the most recent show, due exactly     *)
(* toastDuration after that show; an auto-hide callback never runs earlier *)
(* than toastDuration after the most recent show; and at most one          *)
(* auto-hide timer is pending at any time.                                 *)
C10_LatestShowWins ==
  /\ Cardinality(HideTimers(timers)) <= 1
  /\ "show" \in toastClassName =>
        /\ lastShow # <<>>
        /\ toastTextContent = lastShow[1]
        /\ toastClassName = {"toast", "show", SeverityClass(lastShow[2])}
        /\ \E t \in HideTimers(timers) :
              /\ t.id = toastTimeout
              /\ t.left = toastDuration - sinceShow
  /\ lastEvent.op = "toastTimer" => sinceShow = toastDuration

\* a show() replaced a toast whose auto-hide timer was pending, and the
\* replacing toast is on display part of its duration later
C10_Witness ==
  /\ "show" \in toastClassName
  /\ pendingAtShow = 1
  /\ sinceShow > 0
  /\ sinceShow < toastDuration
  /\ lastShow = <<"Failed to send message. Please try again.", "error">>

\* the auto-hide of a replacing toast has run
C10_WitnessHidden ==
  /\ lastEvent.op = "toastTimer"
  /\ pendingAtShow = 1
  /\ "show" \notin toastClassName

-----------------------------------------------------------------------------
(* C11: when toggle() runs right after toggle(), with no other handler and *)
(* so no change of the cached viewport class in between, the sidebar is    *)
(* back as it was before the first call: in mobile isOpen, the overlay's   *)
(* 'active', the sidebar's 'sidebar-expanded' and the body's overflow; in  *)
(* desktop the sidebar's 'collapsed'.                                      *)
C11_ToggleTwiceRestores ==
  [][(beforeToggle # <<>> /\ lastEvent'.op = "toggle") =>
       IF beforeToggle[1]
       THEN /\ isOpen' = beforeToggle[2]
            /\ overlayActive' = beforeToggle[3]
            /\ ("sidebar-expanded" \in sidebarClasses') =
                 ("sidebar-expanded" \in beforeToggle[4])
            /\ bodyOverflow' = beforeToggle[5]
       ELSE ("collapsed" \in sidebarClasses') =
              ("collapsed" \in beforeToggle[4])]_vars

-----------------------------------------------------------------------------
(* C12: while the cached viewport class is desktop, a click on the overlay *)
(* and an Escape key press leave the sidebar's classes, the overlay's and  *)
(* the hamburger's 'active', isOpen and the body's overflow as they are.   *)
C12_DesktopCloseIgnored ==
  [][(~isMobile /\ lastEvent'.op \in {"overlayClick", "Escape"}) =>
       UNCHANGED <<sidebarClasses, overlayActive, hamburgerActive, isOpen,
                   bodyOverflow>>]_vars

-----------------------------------------------------------------------------
(* C13: the resize handler is debounced.  At most one resize timer is      *)
(* pending; a resize event leaves exactly one, due resizeDelay later; the  *)
(* callback runs resizeDelay after the latest resize event and leaves no   *)
(* resize timer behind.  After the callback the cached class is            *)
(* innerWidth < 768; in desktop the overlay is off, the body's overflow    *)
(* released and isOpen false; in mobile a sidebar that was open is closed. *)
C13_ResizeDebounced ==
  [][/\ Cardinality(ResizeTimers(timers')) <= 1
     /\ lastEvent'.op = "resize" =>
          /\ Cardinality(ResizeTimers(timers')) = 1
          /\ \A t \in ResizeTimers(timers') :
               t.left = resizeDelay /\ t.id = resizeTimeout'
     /\ lastEvent'.op = "resizeTimer" =>
          /\ sinceResize = resizeDelay
          /\ ResizeTimers(timers') = {}
          /\ isMobile' = (innerWidth' < mobileBreakpoint)
          /\ ~isMobile' =>
               ~overlayActive' /\ bodyOverflow' = "" /\ ~isOpen'
          /\ (isMobile' /\ isOpen) =>
               /\ ~isOpen'
               /\ ~overlayActive'
               /\ "sidebar-expanded" \notin sidebarClasses'
               /\ bodyOverflow' = ""]_vars

\* the callback has run after the sidebar was opened in mobile and the
\* window widened to desktop
C13_Witness ==
  /\ lastEvent.op = "resizeTimer"
  /\ ~isMobile
  /\ hamburgerActive
  /\ sinceResize = resizeDelay

\* the callback has run in mobile and closed the open sidebar
C13_WitnessMobile ==
  /\ lastEvent.op = "resizeTimer"
  /\ isMobile
  /\ focus = "hamburger"
  /\ ~isOpen

-----------------------------------------------------------------------------
(* C14: open() on a trigger that has no data-image, or in a page without   *)
(* the modal's content region, leaves the modal's 'open', the body's       *)
(* overflow, the content region and the set of loading images as they are. *)
C14_OpenWithoutSourceAborts ==
  [][(/\ lastEvent'.op = "open"
      /\ DataImage(lastEvent'.arg) = "" \/ ~modalContentEl) =>
       UNCHANGED <<modalOpen, bodyOverflow, modalContent, imageLoads>>]_vars

\* open() has run on the trigger without data-image while the modal was
\* closed and showed an earlier image
C14_Witness ==
  /\ lastEvent.op = "open"
  /\ lastEvent.arg = "none"
  /\ modalContentEl
  /\ ~modalOpen
  /\ modalContent[1] = "img"

\* open() has run in a page without the content region
C14_WitnessNoContent ==
  /\ lastEvent.op = "open"
  /\ lastEvent.arg = "A"
  /\ ~modalContentEl

-----------------------------------------------------------------------------
(* C15: no timer outlives its terminating condition.  After a call of      *)
(* Toast.hide() no auto-hide timer is pending, and after the beforeunload  *)
(* handler no auto-hide, resize, auto-advance or submission timer is.      *)
C15_TimersCancelled ==
  /\ lastEvent.op = "hide" => HideTimers(timers) = {}
  /\ lastEvent.op = "beforeunload" =>
       /\ HideTimers(timers) = {}
       /\ ResizeTimers(timers) = {}
       /\ CarouselTimers(timers) = {}
       /\ SubmitTimers(timers) = {}

-----------------------------------------------------------------------------
(* C16: init() registers the components in the order sidebar, carousel,    *)
(* modal, contactForm, animations, tabs.  When the constructor of one      *)
(* throws, exactly the components before it in that order are registered,  *)
(* init() logs the error and returns; when none throws all six are         *)
(* registered.  What init() registered stays registered afterwards.        *)
C16_InitAbortsAtFirstThrow ==
  [][/\ lastEvent'.op = "init" =>
          LET thrower == lastEvent'.arg
          IN  /\ \A i \in DOMAIN ComponentOrder :
                   ComponentOrder[i] = thrower =>
                     /\ components' = [j \in 1..(i - 1) |-> ComponentOrder[j]]
                     /\ initLog' = "error"
              /\ thrower = "none" =>
                   components' = ComponentOrder /\ initLog' = "success"
              /\ thrower = "monitoring" =>
                   components' = ComponentOrder /\ initLog' = "error"
     /\ initLog # "none" => UNCHANGED <<components, initLog>>]_vars

\* the ContactForm constructor threw: three components are registered, the
\* error is logged, and the sidebar registered before it has since opened
C16_Witness ==
  /\ components = <<"sidebar", "carousel", "modal">>
  /\ initLog = "error"
  /\ isOpen
  /\ CarouselTimers(timers) # {}

\* init() has just returned after the TabManager constructor threw
C16_WitnessLast ==
  /\ lastEvent = Event("init", "tabs")
  /\ Len(components) = 5

-----------------------------------------------------------------------------
(* C17: when the e-mail field has been validated, a value that after       *)
(* trimming has no '@', or no '.' behind an '@', is marked invalid with    *)
(* the e-mail message; 'user@example.com' is marked valid; and the field   *)
(* is marked valid exactly when the trimmed value matches the pattern      *)
(* ^[^\s@]+@[^\s@]+\.[^\s@]+$, which is also what isValidEmail answers.    *)
C17_EmailValidation ==
  lastEvent.op = "blur" =>
    LET v == trim(fieldValue["email"])
        noAt == \A i \in 1..Len(v) : v[i] # "@"
        noDotAfterAt ==
          \A i \in 1..Len(v), j \in 1..Len(v) :
            ~(i < j /\ v[i] = "@" /\ v[j] = ".")
    IN  /\ (noAt \/ noDotAfterAt) =>
             /\ ariaInvalid["email"] = "true"
             /\ fieldError["email"] = "Please enter a valid email address"
        /\ fieldValue["email"] = UserAtExample =>
             ariaInvalid["email"] = "false"
        /\ (ariaInvalid["email"] = "false") <=> MatchesPattern(v)
        /\ isValidEmail(v) <=> MatchesPattern(v)

\* a value with an '@' and no dot behind it has been validated
C17_Witness ==
  /\ lastEvent.op = "blur"
  /\ fieldValue["email"] = <<"a", "@", "a">>
  /\ ariaInvalid["email"] = "true"

\* a value that needs trimming, and has a dot before the separating one,
\* is valid
C17_WitnessValid ==
  /\ lastEvent.op = "blur"
  /\ fieldValue["email"] = <<" ", "a", "@", ".", ".", "a">>
  /\ ariaInvalid["email"] = "false"

C17_WitnessUser ==
  /\ lastEvent.op = "blur"
  /\ fieldValue["email"] = UserAtExample
  /\ ariaInvalid["email"] = "false"

-----------------------------------------------------------------------------
(* C18: with N >= 2 slides every handler leaves the current index in       *)
(* 0..N-1; next() (the next button, ArrowRight, the auto-advance tick)     *)
(* moves it from i to (i + 1) mod N and prev() (the previous button,       *)
(* ArrowLeft) to (i - 1 + N) mod N; a swipe moves it by one or leaves it;  *)
(* and prev() right after next() brings back the index next() started at.  *)
C18_NextPrevWrap ==
  [][LET NextOps == {"next", "ArrowRight", "carouselTimer"}
         PrevOps == {"prev", "ArrowLeft"}
         n == slidesLength
         up == (currentTestimonial + 1) % n
         down == (currentTestimonial - 1 + n) % n
     IN  /\ n >= 2
         /\ currentTestimonial' \in 0..(n - 1)
         /\ lastEvent'.op \in NextOps => currentTestimonial' = up
         /\ lastEvent'.op \in PrevOps => currentTestimonial' = down
         /\ lastEvent'.op = "handleEnd" =>
              currentTestimonial' \in {currentTestimonial, up, down}
         /\ (lastEvent.op \in NextOps /\ lastEvent'.op \in PrevOps) =>
              currentTestimonial' = lastEvent.arg]_vars

\* three testimonials, index 0: prev() has moved to index 2 and the third
\* dot is the active one
C18_Witness ==
  /\ slidesLength = 3
  /\ lastEvent = Event("prev", 0)
  /\ currentTestimonial = 2
  /\ dotsContainer
  /\ dots[2]

\* the auto-advance tick has wrapped from the last slide to the first
C18_WitnessTick ==
  /\ slidesLength = 3
  /\ lastEvent = Event("carouselTimer", 2)
  /\ currentTestimonial = 0

-----------------------------------------------------------------------------
(* C19: a press on the track, at any pageX, stops the auto-advance, and    *)
(* the release that ends it starts the auto-advance again: after           *)
(* handleEnd for a pending press the carousel's interval is running.       *)
C19_SwipeResumes ==
  [][(pressed /\ lastEvent'.op = "handleEnd") =>
       /\ CarouselTimers(timers') # {}
       /\ carouselInterval' # null]_vars

-----------------------------------------------------------------------------
(* C20: after any activateTab on a link of a tab group, every pane of the  *)
(* group that is marked active has aria-hidden "false" and every pane of   *)
(* the group that is not has aria-hidden "true", whatever the link's       *)
(* target names.                                                           *)
C20_AriaHiddenFollowsActive ==
  activatedLink # NoElement =>
    \A p \in PanesOf(activatedLink[1]) :
      ariaHidden[p] = IF paneActive[p] THEN "false" ELSE "true"

-----------------------------------------------------------------------------
(* C21: while a simulated submission is pending the submit and the reset   *)
(* button are disabled, also when a submit event is handled while an       *)
(* earlier submission is pending; so at most one simulated call is in      *)
(* flight.                                                                 *)
C21_DisabledWhilePending ==
  /\ SubmitTimers(timers) # {} => submitDisabled /\ resetDisabled
  /\ Cardinality(SubmitTimers(timers)) <= 1

-----------------------------------------------------------------------------
(* C22: with the sidebar and the overlay in the page, whenever the cached  *)
(* viewport class is desktop the sidebar is not open and the overlay is    *)
(* not active, under every interleaving of toggles, overlay and nav-link   *)
(* clicks, Escape, resize events and the debounced callback.               *)
C22_DesktopNeverOpen ==
  (sidebarEl /\ overlayEl /\ ~isMobile) => (~isOpen /\ ~overlayActive)

\* the callback has just switched to desktop a sidebar that was open in mobile
C22_Witness ==
  /\ sidebarEl /\ overlayEl /\ ~isMobile
  /\ lastEvent.op = "resizeTimer"
  /\ "sidebar-expanded" \in sidebarClasses

\* a toggle in desktop after the window became narrow, callback not yet run
C22_WitnessToggle ==
  /\ sidebarEl /\ overlayEl /\ ~isMobile
  /\ lastEvent.op = "toggle"
  /\ innerWidth < mobileBreakpoint
  /\ ResizeTimers(timers) # {}

\* a toggle that opened in mobile after the window became wide, callback not yet run
C22_WitnessStale ==
  /\ sidebarEl /\ overlayEl /\ isMobile /\ isOpen
  /\ lastEvent.op = "toggle"
  /\ innerWidth >= mobileBreakpoint
  /\ ResizeTimers(timers) # {}

-----------------------------------------------------------------------------
(* C23: with the sidebar and the overlay in the page, after construction   *)
(* and after every sequence of sidebar events the sidebar has the class    *)
(* 'sidebar-expanded', and the hamburger its 'active' marker, exactly      *)
(* when isOpen is true.                                                    *)
C23_ExpandedIffOpen ==
  (sidebarEl /\ overlayEl) =>
    /\ ("sidebar-expanded" \in sidebarClasses) <=> isOpen
    /\ (hamburgerEl => (hamburgerActive <=> isOpen))

====
